---- MODULE Spec2Model ----
(***************************************************************************)
(* completeme: a chat transcript kept in a Markdown file.  One run of      *)
(* main parses the file into alternating user/assistant messages, sends    *)
(* them to a streaming completion endpoint and appends the streamed reply  *)
(* to the file (and to stdout), framed by "===" delimiter lines.           *)
(*                                                                         *)
(* Text is a sequence of one-character strings.  The token InvalidByte     *)
(* stands for a byte that is not valid UTF-8.  Carriage returns are not in *)
(* the input alphabet.                                                     *)
(***************************************************************************)
EXTENDS Integers, Sequences, FiniteSets, TLC

\* ---------------------------------------------------------------- bounds
MaxLines == 4
MaxChunks == 2

\* ------------------------------------------------------------- constants
DELIMITER == <<"=", "=", "=">>

NL == "\n"
InvalidByte == "0xFF"

\* The lines input files are built from.
LineSet ==
    { <<>>, <<"a">>, <<" ">>, DELIMITER, <<" ", "=", "=", "=">> }

\* The Display text of a stream error.
Cause == <<"e">>

\* ------------------------------------------------------------- text helpers
IsWhitespace(c) == c \in {" ", NL}

RECURSIVE TrimStart(_)
TrimStart(s) ==
    IF s = <<>> THEN <<>>
    ELSE IF IsWhitespace(Head(s)) THEN TrimStart(Tail(s))
    ELSE s

RECURSIVE TrimEnd(_)
TrimEnd(s) ==
    IF s = <<>> THEN <<>>
    ELSE IF IsWhitespace(s[Len(s)]) THEN TrimEnd(SubSeq(s, 1, Len(s) - 1))
    ELSE s

\* str::trim
Trim(s) == TrimEnd(TrimStart(s))

TrimOneNewline(s) ==
    IF s # <<>> /\ s[Len(s)] = NL THEN SubSeq(s, 1, Len(s) - 1) ELSE s

\* str::trim_end_matches('\n'): removes every trailing newline
RECURSIVE trim_end_matches_nl(_)
trim_end_matches_nl(s) ==
    IF s # <<>> /\ s[Len(s)] = NL
    THEN trim_end_matches_nl(SubSeq(s, 1, Len(s) - 1))
    ELSE s

\* Index of the first newline of s, 0 if there is none.
RECURSIVE FirstNewline(_, _)
FirstNewline(s, i) ==
    IF i > Len(s) THEN 0
    ELSE IF s[i] = NL THEN i
    ELSE FirstNewline(s, i + 1)

\* BufRead::lines: the newline-terminated lines without their newline, and
\* a last line without newline if the text does not end in one.  (The rest
\* of the text is bound as a value, so that it is computed once.)
RECURSIVE Lines(_)
Lines(s) ==
    IF s = <<>> THEN <<>>
    ELSE LET i == FirstNewline(s, 1) IN
         IF i = 0 THEN <<s>>
         ELSE CHOOSE ls \in { <<SubSeq(s, 1, i - 1)>> \o Lines(rest) :
                                rest \in {SubSeq(s, i + 1, Len(s))} } : TRUE

\* A line read fails (InvalidData) when it is not valid UTF-8.
ValidUtf8(s) == \A i \in 1..Len(s) : s[i] # InvalidByte

IsPrefix(p, s) == Len(p) <= Len(s) /\ SubSeq(s, 1, Len(p)) = p

IsSuffix(p, s) ==
    Len(p) <= Len(s) /\ SubSeq(s, Len(s) - Len(p) + 1, Len(s)) = p

RECURSIVE Flatten(_)
Flatten(ss) == IF ss = <<>> THEN <<>> ELSE Head(ss) \o Flatten(Tail(ss))

\* ------------------------------------------------------------ parse_chat
UserMessage(content) == [role |-> "user", content |-> content]

AssistantMessage(content) == [role |-> "assistant", content |-> content]

ParseInit ==
    [messages |-> <<>>, current |-> <<>>, is_user |-> TRUE,
     has_pending_user_msg |-> FALSE, err |-> FALSE]

ParseLineFlipOnBlank(st, line) ==
    IF Trim(line) = DELIMITER
    THEN IF Trim(st.current) # <<>>
         THEN [st EXCEPT
                 !.messages = Append(@,
                     IF st.is_user
                     THEN UserMessage(trim_end_matches_nl(st.current))
                     ELSE AssistantMessage(trim_end_matches_nl(st.current))),
                 !.current = <<>>,
                 !.is_user = ~st.is_user,
                 !.has_pending_user_msg = FALSE]
         ELSE [st EXCEPT !.is_user = ~st.is_user]
    ELSE [st EXCEPT !.current = st.current \o line \o <<NL>>]

\* One iteration of the while loop over the lines.
ParseLine(st, line) ==
    IF Trim(line) = DELIMITER
    THEN IF Trim(st.current) # <<>>
         THEN [st EXCEPT
                 !.messages = Append(@,
                     IF st.is_user
                     THEN UserMessage(trim_end_matches_nl(st.current))
                     ELSE AssistantMessage(trim_end_matches_nl(st.current))),
                 !.current = <<>>,
                 !.is_user = ~st.is_user,
                 !.has_pending_user_msg = FALSE]
         ELSE st
    ELSE [st EXCEPT !.current = st.current \o line \o <<NL>>]

\* The while loop over the lines, from state st.  (The state after a line
\* is bound as a value, so that it is computed once.)
RECURSIVE ParseLines(_, _)
ParseLines(lines, st) ==
    IF lines = <<>> THEN st
    ELSE IF ~ValidUtf8(Head(lines)) THEN [st EXCEPT !.err = TRUE]
    ELSE CHOOSE end \in { ParseLines(Tail(lines), next) :
                             next \in {ParseLine(st, Head(lines))} } : TRUE

\* The block after the loop: the unterminated trailing block.
ParseTail(st) ==
    IF Trim(st.current) # <<>>
    THEN [st EXCEPT
            !.messages = Append(@, UserMessage(trim_end_matches_nl(st.current))),
            !.has_pending_user_msg = st.is_user]
    ELSE st

\* stat: "absent" (no such file), "denied" (exists, open fails), "ok".
\* (The lines and the state after the loop are bound as values, so that
\* they are computed once.)
parse_chat(stat, bytes) ==
    IF stat # "ok"
    THEN [ok |-> TRUE, messages |-> <<>>, has_pending_user_msg |-> FALSE]
    ELSE CHOOSE result \in
           { IF st.err
             THEN [ok |-> FALSE, messages |-> <<>>,
                   has_pending_user_msg |-> FALSE]
             ELSE [ok |-> TRUE,
                   messages |-> ParseTail(st).messages,
                   has_pending_user_msg |-> ParseTail(st).has_pending_user_msg] :
             st \in { ParseLines(lines, ParseInit) :
                        lines \in {Lines(bytes)} } } : TRUE

no_messages_to_send_negated(msgs, pending) == msgs = <<>> /\ pending

\* The test of main that ends the run when there is nothing to send.
no_messages_to_send(msgs, pending) == msgs = <<>> /\ ~pending

\* ------------------------------------------------------- what main writes
write_from_start(bytes, text) ==
    IF Len(text) >= Len(bytes) THEN text
    ELSE text \o SubSeq(bytes, Len(text) + 1, Len(bytes))

\* A flushed write through the writer of open_chat_file, which is opened
\* with append(true): the text goes to the end of the file.
write_append(bytes, text) == bytes \o text

DelimiterLineNoNewline == DELIMITER

\* writeln!(file_writer, "{DELIMITER}")
DelimiterLine == DELIMITER \o <<NL>>

ErrorLineNoLeadingNewline(e) ==
    <<"[", "E", "r", "r", "o", "r", ":", " ">> \o e \o <<"]", NL>>

\* writeln!(file_writer, "\n[Error: {}]", e)
ErrorLine(e) ==
    <<NL, "[", "E", "r", "r", "o", "r", ":", " ">> \o e \o <<"]", NL>>

closing_bytes_always(started) == <<NL>> \o DelimiterLine

\* What the last block of main appends to the file.
closing_bytes(started) ==
    IF started THEN <<NL>> \o DelimiterLine ELSE <<>>

\* choice.delta.content is an Option: <<>> is None, <<t>> is Some(t).
None == <<>>

Some(t) == <<t>>

Ok(choices) == [ok |-> TRUE, choices |-> choices]

\* The chunks the stream delivers without error.
ChunkSet ==
    { Ok(<<>>),
      Ok(<<None>>),
      Ok(<<Some(<<>>)>>),
      Ok(<<Some(<<"a">>)>>),
      Ok(<<Some(<<"a">>), None, Some(<<"a">>)>>) }

\* The text of the contents of a chunk's choices, in order.
RECURSIVE ChunkText(_)
ChunkText(choices) ==
    IF choices = <<>> THEN <<>>
    ELSE (IF Head(choices) = None THEN <<>> ELSE Head(choices)[1])
         \o ChunkText(Tail(choices))

ChunkStartsOnAnyContent(choices) ==
    \E i \in 1..Len(choices) : choices[i] # None

\* if !content.is_empty() { assistant_response_started = true; }
ChunkStarts(choices) ==
    \E i \in 1..Len(choices) : choices[i] # None /\ choices[i][1] # <<>>

\* ------------------------------------------------------------ input files
LineSeqs == UNION { [1..n -> LineSet \cup {<<InvalidByte>>}] : n \in 0..MaxLines }

WithNewlines(ls) == Flatten([i \in 1..Len(ls) |-> ls[i] \o <<NL>>])

Files ==
    { WithNewlines(ls) : ls \in LineSeqs }
    \cup { TrimOneNewline(WithNewlines(ls)) :
             ls \in { l \in LineSeqs : l # <<>> /\ l[Len(l)] # <<>> } }

\* ------------------------------------------------------------------ state
VARIABLES
    fstat,      \* the chat file: "absent", "denied" (cannot be opened), "ok"
    file,       \* the bytes of the chat file
    fstat0,     \* fstat when the run started
    orig,       \* file when the run started
    pc,         \* position of main
    exit,       \* "running", "ok" (main returned Ok), "error" (returned Err)
    messages,   \* parse_chat's messages
    has_pending_user_msg,
    requested,  \* create_stream has been called
    assistant_response_started,
    stdout_bytes,   \* what was written through stdout_writer
    reports,    \* the messages printed for the operator, in order
    streamed,   \* the text of the chunks pulled so far
    errSeen,    \* the stream yielded an error
    nPulled,    \* number of chunks pulled without error
    second_run, \* this run is a re-run on the file the first run left
    prev_messages   \* the messages the first run sent

vars ==
    <<fstat, file, fstat0, orig, pc, exit, messages, has_pending_user_msg,
      requested, assistant_response_started, stdout_bytes, reports, streamed,
      errSeen, nPulled, second_run, prev_messages>>

Init ==
    /\ fstat \in {"absent", "denied", "ok"}
    /\ file \in (IF fstat = "absent" THEN {<<>>} ELSE Files)
    /\ fstat0 = fstat
    /\ orig = file
    /\ pc = "parse"
    /\ exit = "running"
    /\ messages = <<>>
    /\ has_pending_user_msg = FALSE
    /\ requested = FALSE
    /\ assistant_response_started = FALSE
    /\ stdout_bytes = <<>>
    /\ reports = <<>>
    /\ streamed = <<>>
    /\ errSeen = FALSE
    /\ nPulled = 0
    /\ second_run = FALSE
    /\ prev_messages = <<>>

\* let (messages, has_pending_user_msg) = parse_chat(&chat_file)?;
ParseChatOk ==
    /\ pc = "parse"
    /\ \E parsed \in {parse_chat(fstat, file)} :
         /\ parsed.ok
         /\ messages' = parsed.messages
         /\ has_pending_user_msg' = parsed.has_pending_user_msg
    /\ pc' = "check"
    /\ UNCHANGED <<fstat, file, fstat0, orig, exit, requested,
                   assistant_response_started, stdout_bytes, reports,
                   streamed, errSeen, nPulled,
                   second_run, prev_messages>>

ParseChatErr ==
    /\ pc = "parse"
    /\ \E parsed \in {parse_chat(fstat, file)} : ~parsed.ok
    /\ pc' = "failed"
    /\ exit' = "error"
    /\ UNCHANGED <<fstat, file, fstat0, orig, messages, has_pending_user_msg,
                   requested, assistant_response_started, stdout_bytes,
                   reports, streamed, errSeen, nPulled,
                   second_run, prev_messages>>

\* if messages.is_empty() && !has_pending_user_msg { ... return Ok(()) }
NoMessages ==
    /\ pc = "check"
    /\ no_messages_to_send(messages, has_pending_user_msg)
    /\ reports' = Append(reports, "no_messages")
    /\ pc' = "done"
    /\ exit' = "ok"
    /\ UNCHANGED <<fstat, file, fstat0, orig, messages, has_pending_user_msg,
                   requested, assistant_response_started, stdout_bytes,
                   streamed, errSeen, nPulled,
                   second_run, prev_messages>>

BuildRequest ==
    /\ pc = "check"
    /\ ~no_messages_to_send(messages, has_pending_user_msg)
    /\ pc' = "create_stream"
    /\ UNCHANGED <<fstat, file, fstat0, orig, exit, messages,
                   has_pending_user_msg, requested,
                   assistant_response_started, stdout_bytes, reports,
                   streamed, errSeen, nPulled,
                   second_run, prev_messages>>

\* let mut stream = client.chat().create_stream(request).await?;
CreateStreamOk ==
    /\ pc = "create_stream"
    /\ requested' = TRUE
    /\ pc' = "open"
    /\ UNCHANGED <<fstat, file, fstat0, orig, exit, messages,
                   has_pending_user_msg, assistant_response_started,
                   stdout_bytes, reports, streamed, errSeen, nPulled,
                   second_run, prev_messages>>

CreateStreamErr ==
    /\ pc = "create_stream"
    /\ requested' = TRUE
    /\ pc' = "failed"
    /\ exit' = "error"
    /\ UNCHANGED <<fstat, file, fstat0, orig, messages, has_pending_user_msg,
                   assistant_response_started, stdout_bytes, reports,
                   streamed, errSeen, nPulled,
                   second_run, prev_messages>>

\* let mut file_writer = open_chat_file(&chat_file)?;  (append, create)
OpenChatFileOk ==
    /\ pc = "open"
    /\ fstat' = "ok"
    /\ pc' = "delimiter"
    /\ UNCHANGED <<file, fstat0, orig, exit, messages, has_pending_user_msg,
                   requested, assistant_response_started, stdout_bytes,
                   reports, streamed, errSeen, nPulled,
                   second_run, prev_messages>>

OpenChatFileErr ==
    /\ pc = "open"
    /\ pc' = "failed"
    /\ exit' = "error"
    /\ UNCHANGED <<fstat, file, fstat0, orig, messages, has_pending_user_msg,
                   requested, assistant_response_started, stdout_bytes,
                   reports, streamed, errSeen, nPulled,
                   second_run, prev_messages>>

\* if has_pending_user_msg { writeln!(file_writer, "{DELIMITER}")?; flush }
WriteDelimiter ==
    /\ pc = "delimiter"
    /\ file' = IF has_pending_user_msg
                THEN write_append(file, DelimiterLine) ELSE file
    /\ pc' = "stream"
    /\ UNCHANGED <<fstat, fstat0, orig, exit, messages, has_pending_user_msg,
                   requested, assistant_response_started, stdout_bytes,
                   reports, streamed, errSeen, nPulled,
                   second_run, prev_messages>>

StreamChunkFileNotFlushed ==
    /\ pc = "stream"
    /\ nPulled < MaxChunks
    /\ \E chunk \in ChunkSet :
         /\ assistant_response_started' =
              (assistant_response_started \/ ChunkStarts(chunk.choices))
         /\ stdout_bytes' = stdout_bytes \o ChunkText(chunk.choices)
         /\ streamed' = streamed \o ChunkText(chunk.choices)
    /\ nPulled' = nPulled + 1
    /\ UNCHANGED <<fstat, file, fstat0, orig, pc, exit, messages,
                   has_pending_user_msg, requested, reports, errSeen,
                   second_run, prev_messages>>

\* stream.next() yields Ok(resp): every choice's content goes to stdout and
\* to the file, then both are flushed.
StreamChunk ==
    /\ pc = "stream"
    /\ nPulled < MaxChunks
    /\ \E chunk \in ChunkSet :
         /\ assistant_response_started' =
              (assistant_response_started \/ ChunkStarts(chunk.choices))
         /\ stdout_bytes' = stdout_bytes \o ChunkText(chunk.choices)
         /\ file' = write_append(file, ChunkText(chunk.choices))
         /\ streamed' = streamed \o ChunkText(chunk.choices)
    /\ nPulled' = nPulled + 1
    /\ UNCHANGED <<fstat, fstat0, orig, pc, exit, messages,
                   has_pending_user_msg, requested, reports, errSeen,
                   second_run, prev_messages>>

StreamErrorReraise ==
    /\ pc = "stream"
    /\ reports' = Append(reports, "stream_error")
    /\ file' = write_append(file, ErrorLine(Cause))
    /\ errSeen' = TRUE
    /\ pc' = "failed"
    /\ exit' = "error"
    /\ UNCHANGED <<fstat, fstat0, orig, messages, has_pending_user_msg,
                   requested, assistant_response_started, stdout_bytes,
                   streamed, nPulled, second_run, prev_messages>>

\* stream.next() yields Err(e): the error line is appended, the loop ends.
StreamError ==
    /\ pc = "stream"
    /\ reports' = Append(reports, "stream_error")
    /\ file' = write_append(file, ErrorLine(Cause))
    /\ errSeen' = TRUE
    /\ pc' = "finalize"
    /\ UNCHANGED <<fstat, fstat0, orig, exit, messages, has_pending_user_msg,
                   requested, assistant_response_started, stdout_bytes,
                   streamed, nPulled,
                   second_run, prev_messages>>

StreamEndReturns ==
    /\ pc = "stream"
    /\ pc' = "done"
    /\ exit' = "ok"
    /\ UNCHANGED <<fstat, file, fstat0, orig, messages,
                   has_pending_user_msg, requested,
                   assistant_response_started, stdout_bytes, reports,
                   streamed, errSeen, nPulled, second_run, prev_messages>>

\* stream.next() yields None: the loop ends.
StreamEnd ==
    /\ pc = "stream"
    /\ pc' = "finalize"
    /\ UNCHANGED <<fstat, file, fstat0, orig, exit, messages,
                   has_pending_user_msg, requested,
                   assistant_response_started, stdout_bytes, reports,
                   streamed, errSeen, nPulled,
                   second_run, prev_messages>>

\* if assistant_response_started { newline, delimiter } else { println }
Finalize ==
    /\ pc = "finalize"
    /\ stdout_bytes' = IF assistant_response_started
                       THEN stdout_bytes \o <<NL>> ELSE stdout_bytes
    /\ file' = write_append(file, closing_bytes(assistant_response_started))
    /\ reports' = IF assistant_response_started
                  THEN reports ELSE Append(reports, "no_content")
    /\ pc' = "done"
    /\ exit' = "ok"
    /\ UNCHANGED <<fstat, fstat0, orig, messages, has_pending_user_msg,
                   requested, assistant_response_started, streamed, errSeen,
                   nPulled,
                   second_run, prev_messages>>

\* The operator runs the program again on the unmodified file after a run
\* that wrote the opening delimiter and got no content and no error.
Rerun ==
    /\ pc = "done"
    /\ ~second_run
    /\ requested
    /\ has_pending_user_msg
    /\ ~assistant_response_started
    /\ ~errSeen
    /\ second_run' = TRUE
    /\ prev_messages' = messages
    /\ fstat0' = fstat
    /\ orig' = file
    /\ pc' = "parse"
    /\ exit' = "running"
    /\ messages' = <<>>
    /\ has_pending_user_msg' = FALSE
    /\ requested' = FALSE
    /\ stdout_bytes' = <<>>
    /\ reports' = <<>>
    /\ streamed' = <<>>
    /\ nPulled' = 0
    /\ UNCHANGED <<fstat, file, assistant_response_started, errSeen>>

Next ==
    \/ ParseChatOk
    \/ ParseChatErr
    \/ NoMessages
    \/ BuildRequest
    \/ CreateStreamOk
    \/ CreateStreamErr
    \/ OpenChatFileOk
    \/ OpenChatFileErr
    \/ WriteDelimiter
    \/ StreamChunk
    \/ StreamError
    \/ StreamEnd
    \/ Finalize
    \/ Rerun

Spec == Init /\ [][Next]_vars

\* main is one thread of control that runs every step to completion, and
\* the stream is finite: a step that can be taken is taken.
FairSpec == Spec /\ WF_vars(Next)

TypeOK ==
    /\ fstat \in {"absent", "denied", "ok"}
    /\ pc \in {"parse", "check", "create_stream", "open", "delimiter",
               "stream", "finalize", "done", "failed"}
    /\ exit \in {"running", "ok", "error"}
    /\ nPulled \in 0..MaxChunks

\* ---------------------------------------------------------------- claims
\* The marker line and the error line as the specification writes them.
MarkerLine == <<"=", "=", "=", "\n">>

ErrorText == <<"[", "E", "r", "r", "o", "r", ":", " ", "e", "]">>

\* The run streamed to exhaustion and wrote the closing delimiter.
FullySuccessful ==
    pc = "done" /\ requested /\ ~errSeen /\ assistant_response_started

\* C1: after a fully successful session, parsing the file gives no pending
\* user turn and the turns that were sent followed by one Assistant turn
\* whose content is the streamed text without one trailing newline.
C1_RoundTrip ==
    FullySuccessful =>
        LET p == parse_chat(fstat, file) IN
        /\ p.ok
        /\ ~p.has_pending_user_msg
        /\ p.messages =
             Append(messages, AssistantMessage(TrimOneNewline(streamed)))

\* C2: the turns parsed from any file content start with a User turn and no
\* two adjacent turns have the same role.
C2_Alternation ==
    LET m == parse_chat("ok", file).messages IN
    /\ m # <<>> => m[1].role = "user"
    /\ \A i \in 1..(Len(m) - 1) : m[i].role # m[i + 1].role

\* C3 as stated: after a non-empty chunk and then an error chunk, the file
\* ends with the chunk text, a newline, the error line and a newline, with
\* no closing marker after it, and finalize ran with the response started.
C3_ErrorEndsFile ==
    (pc = "done" /\ errSeen /\ streamed # <<>>) =>
        /\ assistant_response_started
        /\ IsSuffix(streamed \o <<"\n">> \o ErrorText \o <<"\n">>, file)

\* C3 amended: after a non-empty chunk and then an error chunk, finalize
\* runs with the response started and the file ends with the chunk text, a
\* newline, the error line, a newline, an empty line and the closing marker
\* line.
C3_ErrorThenClosingMarker ==
    (pc = "done" /\ errSeen /\ streamed # <<>>) =>
        /\ assistant_response_started
        /\ IsSuffix(streamed \o <<"\n">> \o ErrorText \o <<"\n">>
                      \o <<"\n">> \o MarkerLine, file)

C3_Witness ==
    /\ pc = "done"
    /\ errSeen
    /\ streamed = <<"a">>
    /\ IsSuffix(MarkerLine, file)

\* C4: whenever the user turn is pending, the opening delimiter is in the
\* file before the completion request is issued, also when the request
\* fails.
C4_DelimiterBeforeRequest ==
    (requested /\ has_pending_user_msg) =>
        IsPrefix(orig \o MarkerLine, file)

\* Every line of the text is blank or a marker line.
OnlyWhitespaceAndDelimiters(bytes) ==
    LET ls == Lines(bytes) IN
    \A i \in 1..Len(ls) :
        LET t == Trim(ls[i]) IN t = <<>> \/ t = <<"=", "=", "=">>

\* C5: when the path does not exist, or the file holds only whitespace and
\* delimiters, main returns without error, issues no request and neither
\* creates nor modifies the file.
C5_NothingToSend ==
    (fstat0 = "absent" \/ (fstat0 = "ok" /\ OnlyWhitespaceAndDelimiters(orig)))
    =>  /\ pc \in {"parse", "check", "done"}
        /\ exit # "error"
        /\ ~requested
        /\ file = orig
        /\ fstat = fstat0
        /\ pc = "done" => (exit = "ok" /\ reports = <<"no_messages">>)

C5_Witness ==
    /\ pc = "done"
    /\ exit = "ok"
    /\ fstat0 = "ok"
    /\ orig = <<" ", "\n", "=", "=", "=", "\n", "\n">>

\* The text is a finished exchange: its last block is an Assistant block
\* closed by a marker line, with only blank lines after it.
CompletedExchange(bytes) ==
    LET st == ParseLines(Lines(bytes), ParseInit) IN
    /\ ~st.err
    /\ st.messages # <<>>
    /\ st.messages[Len(st.messages)].role = "assistant"
    /\ Trim(st.current) = <<>>

\* C6: when the file ends with a delimiter after the assistant's message
\* and holds no new user content, main reports that there is nothing to
\* send and exits without a request and without writing to the file.
C6_CompletedExchangeExit ==
    (fstat0 = "ok" /\ CompletedExchange(orig)) =>
        /\ ~requested
        /\ file = orig
        /\ pc = "done" => reports = <<"no_messages">>

\* The text is one newline-terminated block with content and no marker line.
FreshQuestion(bytes) ==
    /\ bytes # <<>>
    /\ bytes[Len(bytes)] = "\n"
    /\ \E i \in 1..Len(bytes) : bytes[i] \notin {" ", "\n"}
    /\ LET ls == Lines(bytes) IN
       \A i \in 1..Len(ls) :
         /\ Trim(ls[i]) # <<"=", "=", "=">>
         /\ ValidUtf8(ls[i])

\* C7: for a file that is one newline-terminated user block, after a stream
\* of text fragments that exhausts, the file is the user block, the marker
\* line, the fragments, a newline and the marker line.
C7_FreshQuestion ==
    (fstat0 = "ok" /\ FullySuccessful /\ FreshQuestion(orig)) =>
        file = orig \o MarkerLine \o streamed \o <<"\n">> \o MarkerLine

C7_Witness ==
    /\ FullySuccessful
    /\ fstat0 = "ok"
    /\ orig = <<"a", "\n">>
    /\ streamed = <<"a", "a", "a">>

\* C8: when the file exists but cannot be opened or read, parsing fails
\* with an error and the run aborts before any request or file change.
C8_UnreadableFile ==
    ((fstat0 = "denied" \/ (fstat0 = "ok" /\ ~ValidUtf8(orig)))
     /\ pc # "parse")
    =>  /\ pc = "failed"
        /\ exit = "error"
        /\ ~requested
        /\ file = orig

\* The blocks of non-marker lines that become turns: a marker line closes
\* the block before it unless that block is blank, and a blank block at the
\* end of the text is no turn.
RECURSIVE BlockTexts(_, _)
BlockTexts(lines, block) ==
    IF lines = <<>>
    THEN (IF Trim(block) # <<>> THEN <<block>> ELSE <<>>)
    ELSE IF Trim(Head(lines)) = <<"=", "=", "=">>
         THEN (IF Trim(block) # <<>>
               THEN <<block>> \o BlockTexts(Tail(lines), <<>>)
               ELSE BlockTexts(Tail(lines), block))
         ELSE BlockTexts(Tail(lines), block \o Head(lines) \o <<"\n">>)

\* C9: the content of every turn parsed from any file is its block of
\* non-marker lines without one trailing newline: no other line, and no
\* blank line at the end of a block, is dropped.
C9_NoContentLoss ==
    LET p == parse_chat("ok", file)
        b == BlockTexts(Lines(file), <<>>)
    IN  p.ok =>
          [i \in 1..Len(p.messages) |-> p.messages[i].content]
          = [i \in 1..Len(b) |-> TrimOneNewline(b[i])]

\* C10: when the stream is exhausted without any non-empty fragment, the
\* file holds the opening marker (if the user turn was pending) and no
\* closing marker, the lack of content is reported and main returns Ok.
C10_EmptyResponse ==
    (pc = "done" /\ requested /\ ~errSeen /\ streamed = <<>>) =>
        /\ file = orig \o (IF has_pending_user_msg THEN MarkerLine ELSE <<>>)
        /\ reports = <<"no_content">>
        /\ exit = "ok"

C10_Witness ==
    /\ pc = "done"
    /\ requested
    /\ ~errSeen
    /\ streamed = <<>>
    /\ nPulled = 2
    /\ has_pending_user_msg
    /\ file = <<"a", "\n", "=", "=", "=", "\n">>

\* C11: the file is append-only: no step rewrites or truncates the bytes
\* already in the file, and the content the file had when the session
\* started stays a prefix of the file.
C11_AppendOnly ==
    [][/\ Len(file') >= Len(file)
       /\ SubSeq(file', 1, Len(file)) = file
       /\ SubSeq(file', 1, Len(orig')) = orig']_vars

C11_Witness ==
    /\ pc = "done"
    /\ orig = <<"a", "\n">>
    /\ file = <<"a", "\n", "=", "=", "=", "\n", "a", "\n", "=", "=", "=", "\n">>

\* The opening delimiter line, when the user turn was pending.
OpeningMarker == IF has_pending_user_msg THEN MarkerLine ELSE <<>>

\* C12 as stated: at the end of a session the bytes written to the display
\* are the bytes appended to the file, except only for the delimiter line
\* written before the stream is read.
C12_DisplayEqualsFile ==
    (pc = "done" /\ requested) =>
        file = orig \o OpeningMarker \o stdout_bytes

\* C12 amended: at the end of a session the display holds the fragments,
\* and a final newline if content was produced; the bytes appended to the
\* file are the same except for the opening delimiter line, the error line
\* of a failed stream and the closing delimiter line, which only the file
\* receives.
C12_DisplayEqualsFileButMarkers ==
    (pc = "done" /\ requested) =>
        /\ stdout_bytes =
             streamed
             \o (IF assistant_response_started THEN <<"\n">> ELSE <<>>)
        /\ file =
             orig \o OpeningMarker \o streamed
             \o (IF errSeen THEN <<"\n">> \o ErrorText \o <<"\n">> ELSE <<>>)
             \o (IF assistant_response_started
                 THEN <<"\n">> \o MarkerLine ELSE <<>>)

C12_Witness ==
    /\ pc = "done"
    /\ requested
    /\ ~errSeen
    /\ stdout_bytes = <<"a", "\n">>
    /\ file = <<"a", "\n", "=", "=", "=", "\n", "a", "\n", "=", "=", "=", "\n">>
    /\ second_run

IsMarkerLine(line) == Trim(line) = <<"=", "=", "=">>

\* Line k comes when the block accumulated so far is empty or blank: only
\* blank lines lie between it and the start of the text or the marker line
\* before it.
BlankBlockBefore(lines, k) ==
    \E m \in 0..(k - 1) :
        /\ m = 0 \/ IsMarkerLine(lines[m])
        /\ \A j \in (m + 1)..(k - 1) : Trim(lines[j]) = <<>>

WithoutLine(lines, k) ==
    SubSeq(lines, 1, k - 1) \o SubSeq(lines, k + 1, Len(lines))

\* C13: a marker line met while the accumulated block is empty or blank
\* commits no turn and does not flip the role: the file a run is about to
\* parse parses as it does without that line, and no parsed turn is blank.
C13_BlankDelimiterTolerance ==
    pc = "parse" =>
    \A lines \in {Lines(file)} : \A p \in {parse_chat("ok", file)} :
        p.ok =>
          /\ \A i \in 1..Len(p.messages) : Trim(p.messages[i].content) # <<>>
          /\ \A k \in 1..Len(lines) :
               (IsMarkerLine(lines[k]) /\ BlankBlockBefore(lines, k)) =>
                   parse_chat("ok", WithNewlines(WithoutLine(lines, k))) = p

C13_Witness ==
    /\ pc = "check"
    /\ orig = <<"=", "=", "=", "\n", "=", "=", "=", "\n", "a", "\n">>
    /\ messages = <<[role |-> "user", content |-> <<"a">>]>>
    /\ has_pending_user_msg

\* C14: at end of input with a non-blank buffer the parser commits one
\* final turn with the current role, and the user turn is pending exactly
\* when that role is User; with a blank buffer nothing is pending.
C14_TrailingBlockRole ==
    LET st == ParseLines(Lines(file), ParseInit)
        p == parse_chat("ok", file)
    IN  p.ok =>
          IF Trim(st.current) # <<>>
          THEN /\ Len(p.messages) = Len(st.messages) + 1
               /\ p.messages[Len(p.messages)].role =
                    (IF st.is_user THEN "user" ELSE "assistant")
               /\ p.has_pending_user_msg = st.is_user
          ELSE /\ p.messages = st.messages
               /\ ~p.has_pending_user_msg

\* C15: once the stream has yielded an error, the error line is in the
\* file right after the fragments written so far, the loop has ended (no
\* later fragment reaches the file or the display), the error is not
\* returned, and main goes on to its final block and returns Ok.
C15_ErrorChunkHandling ==
    errSeen =>
        /\ pc \in {"finalize", "done"}
        /\ exit = (IF pc = "done" THEN "ok" ELSE "running")
        /\ file =
             orig \o OpeningMarker \o streamed
             \o <<"\n">> \o ErrorText \o <<"\n">>
             \o (IF pc = "done" /\ assistant_response_started
                 THEN <<"\n">> \o MarkerLine ELSE <<>>)
        /\ stdout_bytes =
             streamed
             \o (IF pc = "done" /\ assistant_response_started
                 THEN <<"\n">> ELSE <<>>)

C15_Witness ==
    /\ pc = "done"
    /\ exit = "ok"
    /\ errSeen
    /\ nPulled = 1
    /\ streamed = <<"a", "a">>

\* C16: the report that no content was produced is issued only when the
\* response never started and the stream yielded no error.
C16_NoContentReportOnlyWithoutError ==
    (\E i \in 1..Len(reports) : reports[i] = "no_content") =>
        (~assistant_response_started /\ ~errSeen)

\* C17: whenever the next chunk is about to be pulled, the fragments of all
\* earlier chunks are on the display and in the file: the display and the
\* bytes appended to the file after the opening delimiter both equal the
\* fragments in delivery order.
C17_LockStep ==
    pc = "stream" =>
        /\ stdout_bytes = streamed
        /\ file = orig \o OpeningMarker \o stdout_bytes

C17_Witness ==
    /\ pc = "stream"
    /\ nPulled = 2
    /\ stdout_bytes = <<"a", "a", "a">>
    /\ file = <<"a", "\n", "=", "=", "=", "\n", "a", "a", "a">>

\* C18: for every file whose parse gives a pending user turn, whether or
\* not it ends in a newline, once the opening delimiter is appended the
\* file parses to the same turns with nothing pending, and the block that
\* follows is the Assistant's.
C18_OpeningDelimiterClosesUserTurn ==
    (pc = "stream" /\ nPulled = 0 /\ has_pending_user_msg) =>
        LET p == parse_chat("ok", file)
            st == ParseLines(Lines(file), ParseInit)
        IN  /\ p.ok
            /\ p.messages = messages
            /\ ~p.has_pending_user_msg
            /\ ~st.is_user

\* C19: a second run on the file left by a run that wrote the opening
\* delimiter and got no content sends the same turns, writes no second
\* opening delimiter, and after a successful response leaves a file that
\* parses to those turns plus one Assistant turn.
C19_RerunAfterEmptyResponse ==
    (second_run /\ pc # "parse") =>
        /\ messages = prev_messages
        /\ ~has_pending_user_msg
        /\ pc \in {"stream", "finalize", "done"} =>
             IsPrefix(orig \o streamed, file)
        /\ FullySuccessful =>
             LET p == parse_chat(fstat, file) IN
             /\ p.ok
             /\ ~p.has_pending_user_msg
             /\ p.messages =
                  Append(prev_messages,
                         [role |-> "assistant", content |-> streamed])

====
